---- MODULE Spec2Model ----
(***************************************************************************)
(* Progress tracking, assessment grading and learning-path creation of the *)
(* learning-experience platform (backend/lxp/api.py, backend/lxp/models.py,*)
(* backend/lxp/grok_service.py), as a state machine over the record store. *)
(*                                                                         *)
(* Conventions.  An optional value is a sequence: <<>> is Python's None    *)
(* and <<v>> is the value v.  A float is an exact fraction <<n, d>> in     *)
(* lowest terms (d > 0); within the bounds used here Python's double       *)
(* arithmetic orders these values exactly as the fractions do.  A          *)
(* DateTimeField is an integer clock reading, 0 standing for NULL.         *)
(***************************************************************************)
EXTENDS Integers, Sequences, FiniteSets, TLC

VARIABLES
    assessments,   \* Assessment rows, by id (shared catalogue)
    paths,         \* LearningPath rows, by id
    assignments,   \* ContentAssignment rows, in creation order
    progress,      \* Progress rows, by id
    results,       \* AssessmentResult rows, by id
    sessions,      \* AIMentorSession rows, by id
    inflight,      \* per worker: the request it is in the middle of
    now,           \* the clock read by datetime.now()
    last           \* the request handled last: its inputs and its outcome

vars == <<assessments, paths, assignments, progress, results, sessions,
          inflight, now, last>>

----------------------------------------------------------------------------
(* Bounds of the model *)

MaxOps == 4          \* requests handled in one behaviour
MaxQuestions == 2    \* questions of an assessment drawn by InitGrade
MaxContentIds == 2   \* length of the content_ids list of one request
MaxPaths == 1        \* learning paths created in one behaviour
MaxResults == 1      \* submissions recorded in one behaviour
MaxTimed == 2        \* submissions recorded when the timestamps vary
MaxAssigned == 3     \* content items of the learning path of SpecPath
MaxSessions == 2     \* mentor sessions recorded in one behaviour
MaxLines == 3        \* lines of an LLM reply drawn by SpecGoals

----------------------------------------------------------------------------
(* Optional values and floats *)

None == <<>>
Some(v) == <<v>>

RECURSIVE gcd(_, _)
gcd(a, b) == IF b = 0 THEN a ELSE gcd(b, a % b)

\* The float n/d, for n >= 0 and d > 0.
Float(n, d) == LET g == gcd(n, d) IN <<n \div g, d \div g>>

\* A float given as a whole number (negative ones included).
Whole(n) == <<n, 1>>

\* x >= y on floats.
Ge(x, y) == x[1] * y[2] >= y[1] * x[2]

\* round, cutting the digits after the ndigits-th off.
round_down(x, ndigits) ==
    Float((x[1] * 10^ndigits) \div x[2], 10^ndigits)

\* round(x, ndigits) for x >= 0: the nearest multiple of 10^-ndigits, the
\* even one of the two when x lies halfway between them.
round(x, ndigits) ==
    LET scaled == x[1] * 10^ndigits
        q == scaled \div x[2]
        r == scaled % x[2]
        up == 2 * r > x[2] \/ (2 * r = x[2] /\ q % 2 = 1)
    IN  Float(IF up THEN q + 1 ELSE q, 10^ndigits)

----------------------------------------------------------------------------
(* The catalogue the requests refer to: rows the core only reads *)

Students == {1, 2}
Workers == {1, 2}      \* request workers of the deployment
Contents == {1, 2, 3, 4}

STATUS_CHOICES == {"not_started", "in_progress", "completed", "needs_review"}

----------------------------------------------------------------------------
(* Grading (submit_assessment, the part before any write) *)

\* str(question.get('id')): the key under which an answer is looked up.
str(id) == IF id = None THEN "None"
           ELSE IF id = Some(1) THEN "1"
           ELSE IF id = Some(2) THEN "2"
           ELSE "3"

\* correct_answers, counting every answered question as correct.
RECURSIVE correct_answers_any(_, _)
correct_answers_any(questions, answers) ==
    IF questions = <<>> THEN 0
    ELSE (IF str(Head(questions).id) \in DOMAIN answers THEN 1 ELSE 0)
             + correct_answers_any(Tail(questions), answers)

\* The loop that counts correct answers, question by question.
RECURSIVE correct_answers(_, _)
correct_answers(questions, answers) ==
    IF questions = <<>> THEN 0
    ELSE LET question == Head(questions)
             question_id == str(question.id)
             hit == /\ question_id \in DOMAIN answers
                    /\ answers[question_id] = question.correct_answer
         IN  (IF hit THEN 1 ELSE 0) + correct_answers(Tail(questions), answers)

score_of(questions, answers) ==
    LET total_questions == Len(questions)
    IN  IF total_questions > 0
        THEN Float(correct_answers(questions, answers) * 100, total_questions)
        ELSE Whole(0)

passed_of(score, passing_score) == Ge(score, Whole(passing_score))

\* The loop that collects the text of the questions to review.
RECURSIVE questions_missed(_, _)
questions_missed(questions, answers) ==
    IF questions = <<>> THEN <<>>
    ELSE LET question == Head(questions)
             question_id == str(question.id)
             rest == questions_missed(Tail(questions), answers)
         IN  IF question_id \in DOMAIN answers
                /\ answers[question_id] # question.correct_answer
             THEN <<question.question>> \o rest
             ELSE rest

----------------------------------------------------------------------------
(* generate_assessment_feedback: what the LLM client did decides the text *)

LlmOutcomes == {"text", "empty_text", "no_text", "no_choices", "error"}

\* The three-band fallback message, named by its band.
fallback_feedback(score) ==
    IF Ge(score, Whole(80)) THEN "fallback_great"
    ELSE IF Ge(score, Whole(60)) THEN "fallback_on_track"
    ELSE "fallback_fundamentals"

\* The returned feedback: an optional string (message.content may be None).
generate_assessment_feedback(score, llm) ==
    CASE llm = "text"       -> Some("llm_feedback")
      [] llm = "empty_text" -> Some("")
      [] llm = "no_text"    -> None
      [] OTHER              -> Some(fallback_feedback(score))

----------------------------------------------------------------------------
(* Texts.  A text the code inspects (a query, the content of an LLM reply, *)
(* the message of an exception) is the sequence of its characters; a fixed *)
(* message of the service is a text of one fragment, the message itself.   *)

UpperCase ==
    <<"A", "B", "C", "D", "E", "F", "G", "H", "I", "J", "K", "L", "M", "N",
      "O", "P", "Q", "R", "S", "T", "U", "V", "W", "X", "Y", "Z">>
LowerCase ==
    <<"a", "b", "c", "d", "e", "f", "g", "h", "i", "j", "k", "l", "m", "n",
      "o", "p", "q", "r", "s", "t", "u", "v", "w", "x", "y", "z">>
Whitespace == {" ", "\t", "\n"}

\* lower, leaving every character as it is.
lower_nothing(s) == s

\* str.lower()
lower(s) ==
    [i \in DOMAIN s |->
        IF \E k \in DOMAIN UpperCase : UpperCase[k] = s[i]
        THEN LowerCase[CHOOSE k \in DOMAIN UpperCase : UpperCase[k] = s[i]]
        ELSE s[i]]

\* str.strip()
RECURSIVE lstrip(_)
lstrip(s) == IF s # <<>> /\ Head(s) \in Whitespace THEN lstrip(Tail(s)) ELSE s
RECURSIVE rstrip(_)
rstrip(s) == IF s # <<>> /\ s[Len(s)] \in Whitespace
             THEN rstrip(SubSeq(s, 1, Len(s) - 1)) ELSE s
strip(s) == rstrip(lstrip(s))

\* phrase in s
contains(s, phrase) ==
    \E i \in 1..(Len(s) - Len(phrase) + 1) :
        SubSeq(s, i, i + Len(phrase) - 1) = phrase

\* The phrases and keywords the service looks for.
I_CANNOT ==
    <<"i", " ", "c", "a", "n", "n", "o", "t">>
IM_UNABLE_TO ==
    <<"i", "'", "m", " ", "u", "n", "a", "b", "l", "e", " ", "t", "o">>
AGAINST_MY_PROGRAMMING ==
    <<"a", "g", "a", "i", "n", "s", "t", " ", "m", "y", " ", "p", "r", "o",
      "g", "r", "a", "m", "m", "i", "n", "g">>
TIMEOUT ==
    <<"t", "i", "m", "e", "o", "u", "t">>
API_KEY ==
    <<"a", "p", "i", "_", "k", "e", "y">>
AUTHENTICATION ==
    <<"a", "u", "t", "h", "e", "n", "t", "i", "c", "a", "t", "i", "o", "n">>
RATE_LIMIT ==
    <<"r", "a", "t", "e", "_", "l", "i", "m", "i", "t">>

\* The messages of the two exceptions the service raises itself.
NO_CHOICES ==
    <<"N", "o", " ", "r", "e", "s", "p", "o", "n", "s", "e", " ", "c", "h",
      "o", "i", "c", "e", "s", " ", "r", "e", "t", "u", "r", "n", "e", "d",
      " ", "f", "r", "o", "m", " ", "A", "P", "I">>
EMPTY_CONTENT ==
    <<"E", "m", "p", "t", "y", " ", "r", "e", "s", "p", "o", "n", "s", "e",
      " ", "c", "o", "n", "t", "e", "n", "t", " ", "f", "r", "o", "m", " ",
      "A", "P", "I">>

\* The fixed messages of GrokService.chat.
ClarifyingPrompt ==
    <<"I didn't receive a question. What would you like to know?">>
RedirectMessage ==
    <<"I'd be happy to help with your studies! Could you rephrase your question or ask about a specific topic you're learning?">>
TimeoutMessage ==
    <<"I'm taking a bit longer to think. Could you try asking your question again?">>
AuthMessage ==
    <<"I'm having trouble connecting to my knowledge base. Please let your teacher know.">>
RateLimitMessage ==
    <<"I'm getting too many questions right now. Please wait a moment and try again.">>
GenericMessage ==
    <<"I encountered an issue, but I'm here to help! Could you try rephrasing your question?">>

----------------------------------------------------------------------------
(* GrokService.chat.  What the LLM client did is an input of the call: a   *)
(* reply (of some content, or of none), a reply without choices, or an     *)
(* exception of some category carrying some message.                       *)

\* The except clause: the fallback is picked by the text of the exception.
fallback_response(message) ==
    IF contains(lower(message), TIMEOUT) THEN TimeoutMessage
    ELSE IF \/ contains(lower(message), API_KEY)
            \/ contains(lower(message), AUTHENTICATION) THEN AuthMessage
    ELSE IF contains(lower(message), RATE_LIMIT) THEN RateLimitMessage
    ELSE GenericMessage

\* The try block: the text it returns, or the message of what it raises.
validated(llm) ==
    IF llm.kind = "error" THEN [raised |-> TRUE, text |-> llm.message]
    ELSE IF llm.kind = "no_choices" THEN [raised |-> TRUE, text |-> NO_CHOICES]
    ELSE IF llm.content = None \/ strip(llm.content[1]) = <<>>
    THEN [raised |-> TRUE, text |-> EMPTY_CONTENT]
    ELSE LET response_content == llm.content[1]
             response_lower == lower(response_content)
         IN  IF \E phrase \in {I_CANNOT, IM_UNABLE_TO, AGAINST_MY_PROGRAMMING} :
                    contains(response_lower, phrase)
             THEN [raised |-> FALSE, text |-> RedirectMessage]
             ELSE [raised |-> FALSE, text |-> strip(response_content)]

\* chat, turning away the empty query only ("if not user_message:").
chat_empty_only(user_message, system_context, student_context, llm) ==
    IF user_message = <<>>
    THEN [text |-> ClarifyingPrompt, called |-> FALSE]
    ELSE LET reply == validated(llm)
         IN  [text |-> IF reply.raised THEN fallback_response(reply.text)
                       ELSE reply.text,
              called |-> TRUE]

\* The returned text, and whether the client was called on the way.
chat(user_message, system_context, student_context, llm) ==
    IF user_message = <<>> \/ strip(user_message) = <<>>
    THEN [text |-> ClarifyingPrompt, called |-> FALSE]
    ELSE LET reply == validated(llm)
         IN  [text |-> IF reply.raised THEN fallback_response(reply.text)
                       ELSE reply.text,
              called |-> TRUE]

----------------------------------------------------------------------------
(* GrokService.generate_personalized_goals *)

\* response.split('\n'): the lines of a text.
RECURSIVE split_lines(_)
split_lines(s) ==
    IF \A i \in DOMAIN s : s[i] # "\n" THEN <<s>>
    ELSE LET i == CHOOSE i \in DOMAIN s :
                      s[i] = "\n" /\ \A j \in 1..(i - 1) : s[j] # "\n"
         IN  <<SubSeq(s, 1, i - 1)>> \o split_lines(SubSeq(s, i + 1, Len(s)))

Digits == {"0", "1", "2", "3", "4", "5", "6", "7", "8", "9"}
BulletMarks == {"-", "*", "u2022"}    \* "u2022": the one character U+2022

\* line.lstrip of the bullet marks, the digits, the dot and the blank
RECURSIVE lstrip_marks(_)
lstrip_marks(s) ==
    IF s # <<>> /\ Head(s) \in BulletMarks \cup Digits \cup {".", " "}
    THEN lstrip_marks(Tail(s)) ELSE s

\* The test on a stripped line: it starts as a bulleted or numbered item.
is_item(line) ==
    /\ line # <<>>
    /\ \/ line[1] \in BulletMarks
       \/ /\ line[1] \in Digits
          /\ \E i \in DOMAIN line : i <= 3 /\ line[i] = "."

\* cleaned_goals, keeping every goal of 10 characters or more.
RECURSIVE cleaned_goals_from_ten(_)
cleaned_goals_from_ten(lines) ==
    IF lines = <<>> THEN <<>>
    ELSE LET line == strip(Head(lines))
             goal == strip(lstrip_marks(line))
             rest == cleaned_goals_from_ten(Tail(lines))
         IN  IF is_item(line) /\ goal # <<>> /\ Len(goal) >= 10
             THEN <<goal>> \o rest
             ELSE rest

\* The loop over the lines: the goals that pass the cleaning.
RECURSIVE cleaned_goals(_)
cleaned_goals(lines) ==
    IF lines = <<>> THEN <<>>
    ELSE LET line == strip(Head(lines))
             goal == strip(lstrip_marks(line))
             rest == cleaned_goals(Tail(lines))
         IN  IF is_item(line) /\ goal # <<>> /\ Len(goal) > 10
             THEN <<goal>> \o rest
             ELSE rest

\* _get_fallback_goals: four goals spelled with the subject and difficulty.
fallback_goals(subject, difficulty) ==
    LET subject_name == IF subject # <<>> THEN subject ELSE <<"the subject">>
    IN  <<<<"Understand and master core concepts in ">> \o subject_name,
          <<"Complete all assigned content at ">> \o difficulty
              \o <<" level with 80%+ accuracy">>,
          <<"Apply ">> \o subject_name
              \o <<" knowledge to solve real-world problems">>,
          <<"Demonstrate mastery through assessments and projects">>>>

\* goals[:5]
first_five(goals) == SubSeq(goals, 1, IF Len(goals) < 5 THEN Len(goals) ELSE 5)

\* generate_personalized_goals, returning whatever goals the reply holds.
generate_personalized_goals_unchecked(student_grade, subject, difficulty, llm) ==
    IF llm.kind = "reply" /\ llm.content # None
    THEN first_five(cleaned_goals(split_lines(llm.content[1])))
    ELSE fallback_goals(subject, difficulty)

\* The goals returned: every exception raised in the try block (by the
\* client, or for a reply without choices or without text) ends in the
\* fallback, as do invalid inputs and a reply with fewer than 3 goals.
generate_personalized_goals(student_grade, subject, difficulty, llm) ==
    IF subject = <<>> \/ student_grade < 1
    THEN fallback_goals(subject, difficulty)
    ELSE IF llm.kind # "reply" THEN fallback_goals(subject, difficulty)
    ELSE IF llm.content = None \/ strip(llm.content[1]) = <<>>
    THEN fallback_goals(subject, difficulty)
    ELSE LET goals == cleaned_goals(split_lines(llm.content[1]))
         IN  IF Len(goals) >= 3 THEN first_five(goals)
             ELSE fallback_goals(subject, difficulty)

----------------------------------------------------------------------------
(* The record store *)

\* Progress.objects.create(student, learning_path, content, status): the
\* other columns take the defaults of the model.
\* The reading of the clock that auto_now puts in updated_at: the request's
\* reading and the number of the save within the request, so that the rows
\* one request creates are stamped one after the other.
stamp(time, step) == <<time, step>>

new_progress(student, learning_path, content, updated_at) ==
    [student |-> student, learning_path |-> learning_path, content |-> content,
     status |-> "not_started", completion_percentage |-> Whole(0),
     time_spent_minutes |-> 0, started_at |-> 0, completed_at |-> 0,
     mastery_level |-> Whole(0), score |-> None, updated_at |-> updated_at]

\* The ids of the Progress rows of a (student, learning_path, content) triple.
matching(rows, student, learning_path, content) ==
    {i \in DOMAIN rows : /\ rows[i].student = student
                         /\ rows[i].learning_path = learning_path
                         /\ rows[i].content = content}

\* LearningPath.completion_percentage, read off the given tables.
completion_percentage(learning_path, assignment_rows, progress_rows) ==
    LET total_content ==
            Cardinality({i \in DOMAIN assignment_rows :
                            assignment_rows[i].learning_path = learning_path})
        completed_content ==
            Cardinality({i \in DOMAIN progress_rows :
                            /\ progress_rows[i].learning_path = learning_path
                            /\ progress_rows[i].completed_at # 0})
    IN  IF total_content = 0 THEN Whole(0)
        ELSE round(Float(completed_content * 100, total_content), 2)

\* The clock moves with every request handled.
tick == now' = now + 1

----------------------------------------------------------------------------
(* PUT /progress/{progress_id} *)

\* updated, stamping on every 'in_progress' and 'completed' (the guards
\* "not progress.started_at" and "not progress.completed_at" left out).
updated_restamping(row, payload, time) ==
    LET s0 == IF payload.status # None /\ payload.status # Some("")
              THEN [row EXCEPT !.status = payload.status[1]]
              ELSE row
        s1 == IF payload.status = Some("in_progress")
              THEN [s0 EXCEPT !.started_at = time]
              ELSE IF payload.status = Some("completed")
              THEN [s0 EXCEPT !.completed_at = time]
              ELSE s0
    IN  [s1 EXCEPT !.updated_at = stamp(time, 0)]

\* updated, testing the numeric fields for truth ("if payload.score:") and
\* not for presence ("is not None"): a supplied 0 is dropped.
updated_if_truthy(row, payload, time) ==
    LET kept(f, zero) == payload[f] = None \/ payload[f] = Some(zero)
        s0 == IF payload.status # None /\ payload.status # Some("")
              THEN [row EXCEPT !.status = payload.status[1]]
              ELSE row
        s1 == IF payload.status = Some("in_progress") /\ s0.started_at = 0
              THEN [s0 EXCEPT !.started_at = time]
              ELSE IF payload.status = Some("completed") /\ s0.completed_at = 0
              THEN [s0 EXCEPT !.completed_at = time]
              ELSE s0
    IN  [s1 EXCEPT
           !.completion_percentage =
               IF kept("completion_percentage", Whole(0)) THEN @
               ELSE payload.completion_percentage[1],
           !.time_spent_minutes =
               IF kept("time_spent_minutes", 0) THEN @
               ELSE payload.time_spent_minutes[1],
           !.mastery_level =
               IF kept("mastery_level", Whole(0)) THEN @
               ELSE payload.mastery_level[1],
           !.score = IF kept("score", Whole(0)) THEN @ ELSE Some(payload.score[1]),
           !.updated_at = stamp(time, 0)]

\* The row as update_progress leaves it, for a payload of optional fields.
updated(row, payload, time) ==
    LET s0 == IF payload.status # None /\ payload.status # Some("")
              THEN [row EXCEPT !.status = payload.status[1]]
              ELSE row
        s1 == IF payload.status = Some("in_progress") /\ s0.started_at = 0
              THEN [s0 EXCEPT !.started_at = time]
              ELSE IF payload.status = Some("completed") /\ s0.completed_at = 0
              THEN [s0 EXCEPT !.completed_at = time]
              ELSE s0
        s2 == IF payload.completion_percentage # None
              THEN [s1 EXCEPT !.completion_percentage = payload.completion_percentage[1]]
              ELSE s1
        s3 == IF payload.time_spent_minutes # None
              THEN [s2 EXCEPT !.time_spent_minutes = payload.time_spent_minutes[1]]
              ELSE s2
        s4 == IF payload.mastery_level # None
              THEN [s3 EXCEPT !.mastery_level = payload.mastery_level[1]]
              ELSE s3
        s5 == IF payload.score # None
              THEN [s4 EXCEPT !.score = Some(payload.score[1])]
              ELSE s4
    IN  [s5 EXCEPT !.updated_at = stamp(time, 0)]

update_progress(progress_id, payload) ==
    /\ tick
    /\ IF progress_id \in DOMAIN progress
       THEN /\ progress' = [progress EXCEPT
                               ![progress_id] = updated(@, payload, now)]
            /\ last' = [op |-> "update_progress", outcome |-> "ok",
                        progress_id |-> progress_id, payload |-> payload,
                        before |-> progress]
       ELSE /\ progress' = progress
            /\ last' = [op |-> "update_progress", outcome |-> "not_found",
                        progress_id |-> progress_id, payload |-> payload,
                        before |-> progress]
    /\ UNCHANGED <<assessments, paths, assignments, results, sessions, inflight>>

----------------------------------------------------------------------------
(* POST /learning-paths *)

Subjects == {1}

\* assign_content, numbering from 0 (enumerate without start=1).
RECURSIVE assign_content_from_zero(_, _, _, _, _)
assign_content_from_zero(path_id, student, content_ids, order, st) ==
    IF content_ids = <<>> THEN st
    ELSE LET content_id == Head(content_ids)
             taken == \E i \in DOMAIN st.assignments :
                          /\ st.assignments[i].learning_path = path_id
                          /\ st.assignments[i].content = content_id
             assigned == Append(st.assignments,
                                [learning_path |-> path_id, content |-> content_id,
                                 order |-> order - 1, is_required |-> TRUE])
         IN  IF content_id \notin Contents
             THEN [st EXCEPT !.outcome = "not_found"]
             ELSE IF taken
             THEN [st EXCEPT !.outcome = "integrity_error"]
             ELSE assign_content_from_zero(path_id, student, Tail(content_ids),
                      order + 1,
                      [st EXCEPT !.assignments = assigned,
                                 !.progress = Append(@,
                                     new_progress(student, path_id, content_id,
                                                  stamp(now, order)))])

\* The loop over payload.content_ids.  Each row is written as soon as it is
\* created (no transaction spans the request), so the loop stops at the
\* first content id that raises and keeps what it wrote before.
RECURSIVE assign_content(_, _, _, _, _)
assign_content(path_id, student, content_ids, order, st) ==
    IF content_ids = <<>> THEN st
    ELSE LET content_id == Head(content_ids)
             taken == \E i \in DOMAIN st.assignments :
                          /\ st.assignments[i].learning_path = path_id
                          /\ st.assignments[i].content = content_id
             assigned == Append(st.assignments,
                                [learning_path |-> path_id, content |-> content_id,
                                 order |-> order, is_required |-> TRUE])
         IN  IF content_id \notin Contents
             THEN [st EXCEPT !.outcome = "not_found"]
             ELSE IF taken
             THEN [st EXCEPT !.outcome = "integrity_error"]
             ELSE IF matching(st.progress, student, path_id, content_id) # {}
             THEN [st EXCEPT !.assignments = assigned,
                             !.outcome = "integrity_error"]
             ELSE assign_content(path_id, student, Tail(content_ids), order + 1,
                      [st EXCEPT !.assignments = assigned,
                                 !.progress = Append(@,
                                     new_progress(student, path_id, content_id,
                                                  stamp(now, order)))])

\* The columns of Student and Subject that the handler reads.
grade_level(student_id) == 4 + student_id
name(subject_id) == <<"Mathematics">>

create_learning_path(student_id, subject_id, difficulty_level, content_ids, llm) ==
    /\ tick
    /\ IF student_id \notin Students \/ subject_id \notin Subjects
       THEN /\ UNCHANGED <<paths, assignments, progress>>
            /\ last' = [op |-> "create_learning_path", outcome |-> "not_found",
                        student_id |-> student_id, content_ids |-> content_ids,
                        before |-> progress]
       ELSE LET path_id == Len(paths) + 1
                personalized_goals ==
                    generate_personalized_goals(grade_level(student_id),
                        name(subject_id), difficulty_level, llm)
                st == assign_content(path_id, student_id, content_ids, 1,
                          [assignments |-> assignments, progress |-> progress,
                           outcome |-> "ok"])
            IN  /\ paths' = Append(paths,
                       [student |-> student_id, subject |-> subject_id,
                        difficulty_level |-> difficulty_level,
                        personalized_goals |-> personalized_goals])
                /\ assignments' = st.assignments
                /\ progress' = st.progress
                /\ last' = [op |-> "create_learning_path", outcome |-> st.outcome,
                            student_id |-> student_id, content_ids |-> content_ids,
                            before |-> progress]
    /\ UNCHANGED <<assessments, results, sessions, inflight>>

----------------------------------------------------------------------------
(* POST /assessments/{assessment_id}/submit *)

\* graded, without the line that sets completion_percentage on a pass.
graded_without_percentage(row, score, passed, time) ==
    LET r == [row EXCEPT !.score = Some(score), !.mastery_level = score,
                         !.updated_at = stamp(time, 0)]
    IN  IF passed
        THEN [r EXCEPT !.status = "completed", !.completed_at = time]
        ELSE [r EXCEPT !.status = "needs_review"]

\* graded, reopening the row on a failed submission (completed_at cleared).
graded_reopening(row, score, passed, time) ==
    LET r == [row EXCEPT !.score = Some(score), !.mastery_level = score,
                         !.updated_at = stamp(time, 0)]
    IN  IF passed
        THEN [r EXCEPT !.status = "completed", !.completed_at = time,
                       !.completion_percentage = Whole(100)]
        ELSE [r EXCEPT !.status = "needs_review", !.completed_at = 0]

\* The Progress row after an assessment-driven update.
graded(row, score, passed, time) ==
    LET r == [row EXCEPT !.score = Some(score), !.mastery_level = score,
                         !.updated_at = stamp(time, 0)]
    IN  IF passed
        THEN [r EXCEPT !.status = "completed", !.completed_at = time,
                       !.completion_percentage = Whole(100)]
        ELSE [r EXCEPT !.status = "needs_review"]

\* progress_after, without the except clause: DoesNotExist leaves the handler.
progress_after_uncaught(rows, student, learning_path_id, content, score, passed, time) ==
    IF learning_path_id = None \/ content = None
    THEN [rows |-> rows, outcome |-> "ok", matched |-> 0]
    ELSE LET m == matching(rows, student, learning_path_id[1], content[1])
         IN  IF m = {}
             THEN [rows |-> rows, outcome |-> "does_not_exist", matched |-> 0]
             ELSE LET i == CHOOSE i \in m : TRUE
                  IN  [rows |-> [rows EXCEPT ![i] = graded(@, score, passed, time)],
                       outcome |-> "ok", matched |-> i]

\* progress_after, with get_or_create in place of get.
progress_after_get_or_create(rows, student, learning_path_id, content, score, passed, time) ==
    IF learning_path_id = None \/ content = None
    THEN [rows |-> rows, outcome |-> "ok", matched |-> 0]
    ELSE LET m == matching(rows, student, learning_path_id[1], content[1])
             i == IF m = {} THEN Len(rows) + 1 ELSE CHOOSE i \in m : TRUE
             all == IF m = {}
                    THEN Append(rows, new_progress(student, learning_path_id[1],
                                                   content[1], stamp(time, 0)))
                    ELSE rows
         IN  [rows |-> [all EXCEPT ![i] = graded(@, score, passed, time)],
              outcome |-> "ok", matched |-> i]

\* The rows after the block "Update progress if linked to learning path":
\* Progress.objects.get answers with the one matching row, or raises
\* DoesNotExist (caught) or MultipleObjectsReturned (not caught).
progress_after(rows, student, learning_path_id, content, score, passed, time) ==
    IF learning_path_id = None \/ content = None
    THEN [rows |-> rows, outcome |-> "ok", matched |-> 0]
    ELSE LET m == matching(rows, student, learning_path_id[1], content[1])
         IN  IF m = {}
             THEN [rows |-> rows, outcome |-> "ok", matched |-> 0]
             ELSE IF Cardinality(m) > 1
             THEN [rows |-> rows, outcome |-> "multiple_objects", matched |-> 0]
             ELSE LET i == CHOOSE i \in m : TRUE
                  IN  [rows |-> [rows EXCEPT ![i] = graded(@, score, passed, time)],
                       outcome |-> "ok", matched |-> i]

\* int(delta.total_seconds() / 60): the quotient cut towards zero. The
\* timestamps are whole seconds.
time_taken(started_at, submitted_at) ==
    LET seconds == submitted_at - started_at
    IN  IF seconds >= 0 THEN seconds \div 60 ELSE -((-seconds) \div 60)

submit_assessment(assessment_id, student_id, learning_path_id, answers, started_at, submitted_at, llm) ==
    /\ tick
    /\ LET request == [op |-> "submit_assessment",
                       assessment_id |-> assessment_id, student_id |-> student_id,
                       learning_path_id |-> learning_path_id,
                       answers |-> answers, started_at |-> started_at,
                       submitted_at |-> submitted_at, llm |-> llm,
                       before |-> progress]
       IN
       IF assessment_id \notin DOMAIN assessments \/ student_id \notin Students
       THEN /\ UNCHANGED <<progress, results>>
            /\ last' = request @@ [outcome |-> "not_found"]
       ELSE LET assessment == assessments[assessment_id]
                score == score_of(assessment.questions, answers)
                passed == passed_of(score, assessment.passing_score)
                ai_feedback == generate_assessment_feedback(score, llm)
                graded_as == [score |-> score, passed |-> passed,
                              questions_missed |->
                                  questions_missed(assessment.questions, answers)]
            IN  IF \/ ai_feedback = None
                   \/ /\ learning_path_id # None
                      /\ learning_path_id[1] \notin DOMAIN paths
                THEN \* the INSERT violates NOT NULL (ai_feedback) or the
                     \* foreign key (learning_path): nothing is written
                     /\ UNCHANGED <<progress, results>>
                     /\ last' = request @@ graded_as
                                   @@ [outcome |-> "integrity_error"]
                ELSE LET upd == progress_after(progress, student_id,
                                    learning_path_id, assessment.content,
                                    score, passed, now)
                     IN  /\ results' = Append(results,
                                [student |-> student_id,
                                 assessment |-> assessment_id,
                                 learning_path |-> learning_path_id,
                                 answers |-> answers, score |-> score,
                                 passed |-> passed,
                                 started_at |-> started_at,
                                 submitted_at |-> submitted_at,
                                 time_taken_minutes |->
                                     time_taken(started_at, submitted_at),
                                 ai_feedback |-> ai_feedback[1],
                                 graded |-> TRUE])
                         /\ progress' = upd.rows
                         /\ last' = request @@ graded_as
                                       @@ [outcome |-> upd.outcome,
                                           matched |-> upd.matched]
    /\ UNCHANGED <<assessments, paths, assignments, sessions, inflight>>

----------------------------------------------------------------------------
(* POST /ai-mentor/chat *)

\* A request field that Python takes for true: present and not 0.
Truthy(id) == id # None /\ id # Some(0)

\* context_data: the columns of the student, of the path and of the content
\* that the request names, each given as (column, id of the row read).
context_data_of(student_id, learning_path_id, content_id) ==
    LET keys == {"student_grade", "student_name"}
                  \cup (IF Truthy(learning_path_id)
                        THEN {"subject", "difficulty"} ELSE {})
                  \cup (IF Truthy(content_id)
                        THEN {"current_content", "content_type"} ELSE {})
    IN  [k \in keys |->
            CASE k = "student_grade"   -> <<"grade_level", student_id>>
              [] k = "student_name"    -> <<"first_name", student_id>>
              [] k = "subject"         ->
                     <<"subject.name", paths[learning_path_id[1]].subject>>
              [] k = "difficulty"      -> <<"difficulty_level", learning_path_id[1]>>
              [] k = "current_content" -> <<"title", content_id[1]>>
              [] OTHER                 -> <<"content_type", content_id[1]>>]

\* system_context: the sentences joined into it, each named by its subject;
\* None when there is none.
system_context_of(student_id, learning_path_id, content_id) ==
    LET mine == IF Truthy(learning_path_id)
                THEN {i \in DOMAIN progress :
                         /\ progress[i].student = student_id
                         /\ progress[i].learning_path = learning_path_id[1]}
                ELSE {}
        path_parts ==
            IF ~Truthy(learning_path_id) THEN <<>>
            ELSE <<"working_on">>
                 \o (IF mine = {} THEN <<>>
                     ELSE <<"progress">>
                          \o (IF \E i \in mine :
                                    ~Ge(progress[i].mastery_level, Whole(60))
                              THEN <<"needing_support">> ELSE <<>>)
                          \o (IF \E i \in mine :
                                    Ge(progress[i].mastery_level, Whole(80))
                              THEN <<"strong_areas">> ELSE <<>>))
        system_context_parts ==
            path_parts \o (IF Truthy(content_id) THEN <<"viewing">> ELSE <<>>)
    IN  IF system_context_parts = <<>> THEN None ELSE Some(system_context_parts)

\* Meta.ordering = ['-updated_at']: stamp a is later than stamp b.
Later(a, b) == a[1] > b[1] \/ (a[1] = b[1] /\ a[2] > b[2])

\* The orders in which a queryset may yield the rows ids: latest update
\* first, rows with equal stamps in any order.
in_order(rows, ids) ==
    {q \in [1..Cardinality(ids) -> ids] :
        /\ \A k, l \in DOMAIN q : k # l => q[k] # q[l]
        /\ \A k, l \in DOMAIN q :
              k < l => ~Later(rows[q[l]].updated_at, rows[q[k]].updated_at)}

\* progress_records: the rows of the student on the path.
progress_records(rows, student_id, learning_path_id) ==
    {i \in DOMAIN rows : /\ rows[i].student = student_id
                         /\ rows[i].learning_path = learning_path_id}

\* progress_records.filter(mastery_level__lt=60)
struggling(rows, records) ==
    {i \in records : ~Ge(rows[i].mastery_level, Whole(60))}

\* progress_records.filter(mastery_level__gte=80)
strengths(rows, records) ==
    {i \in records : Ge(rows[i].mastery_level, Whole(80))}

\* topics, without the slice [:3].
topics_uncut(rows, queryset) ==
    [k \in DOMAIN queryset |-> <<"title", rows[queryset[k]].content>>]

\* [p.content.title for p in queryset[:3]], a title given as (column, id of
\* the content read).
topics(rows, queryset) ==
    [k \in 1..(IF Len(queryset) < 3 THEN Len(queryset) ELSE 3) |->
        <<"title", rows[queryset[k]].content>>]

\* The INSERT of chat_with_ai_mentor, storing the query in place of the
\* response.
new_session_echoing(student_id, learning_path_id, session_type, query, response_text, context_data) ==
    [student |-> student_id, learning_path |-> learning_path_id,
     session_type |-> session_type, query |-> query,
     response |-> query, context_data |-> context_data,
     helpful |-> None, rating |-> None, created_at |-> now]

\* AIMentorSession.objects.create(...): the columns not given take their
\* defaults.
new_session(student_id, learning_path_id, session_type, query, response_text, context_data) ==
    [student |-> student_id, learning_path |-> learning_path_id,
     session_type |-> session_type, query |-> query,
     response |-> response_text, context_data |-> context_data,
     helpful |-> None, rating |-> None, created_at |-> now]

chat_with_ai_mentor(student_id, learning_path_id, content_id, session_type, query, llm) ==
    /\ tick
    /\ LET request == [op |-> "chat_with_ai_mentor", student_id |-> student_id,
                       learning_path_id |-> learning_path_id,
                       content_id |-> content_id,
                       session_type |-> session_type, query |-> query,
                       llm |-> llm, before |-> progress,
                       sessions_before |-> sessions]
       IN
       IF \/ student_id \notin Students
          \/ Truthy(learning_path_id) /\ learning_path_id[1] \notin DOMAIN paths
          \/ Truthy(content_id) /\ content_id[1] \notin Contents
       THEN /\ UNCHANGED sessions
            /\ last' = request @@ [outcome |-> "not_found"]
       ELSE LET records == IF Truthy(learning_path_id)
                           THEN progress_records(progress, student_id,
                                                 learning_path_id[1])
                           ELSE {}
            IN
            \E low \in in_order(progress, struggling(progress, records)),
               high \in in_order(progress, strengths(progress, records)) :
            LET context_data == context_data_of(student_id, learning_path_id,
                                                content_id)
                system_context == system_context_of(student_id,
                                      learning_path_id, content_id)
                reply == chat(query, system_context, context_data, llm)
                completed_count ==
                    Cardinality({i \in records :
                                    progress[i].status = "completed"})
                in_progress_count ==
                    Cardinality({i \in records :
                                    progress[i].status = "in_progress"})
                answered == [response_text |-> reply.text,
                             called |-> reply.called,
                             context_data |-> context_data,
                             system_context |-> system_context,
                             completed_count |-> completed_count,
                             in_progress_count |-> in_progress_count,
                             struggling_topics |-> topics(progress, low),
                             strong_topics |-> topics(progress, high)]
            IN  IF learning_path_id # None
                   /\ learning_path_id[1] \notin DOMAIN paths
                THEN \* learning_path_id = 0 passes for "no path" above and
                     \* is then inserted as it is: the foreign key fails
                     /\ UNCHANGED sessions
                     /\ last' = request @@ answered
                                   @@ [outcome |-> "integrity_error"]
                ELSE /\ sessions' = Append(sessions,
                            new_session(student_id, learning_path_id,
                                        session_type, query, reply.text,
                                        context_data))
                     /\ last' = request @@ answered @@ [outcome |-> "ok"]
    /\ UNCHANGED <<assessments, paths, assignments, progress, results, inflight>>

----------------------------------------------------------------------------
(* Inputs of the requests *)

\* Sequences over S of length at most n.
SeqUpTo(S, n) == UNION {[1..k -> S] : k \in 0..n}

\* Every dict with keys among K and values in V.
Dicts(K, V) == UNION {[D -> V] : D \in SUBSET K}

Optional(S) == {None} \cup {Some(v) : v \in S}

ContentIds == {1, 2, 9}                  \* 9: an id no row has
PathIds == Optional({1, 2})

StatusInputs == Optional(STATUS_CHOICES \cup {"", "archived"})
FloatInputs == Optional({Whole(0), Whole(50)})
MinuteInputs == Optional({0, 30})

Payloads(statuses, percentages, minutes, masteries, scores) ==
    [status : statuses, completion_percentage : percentages,
     time_spent_minutes : minutes, mastery_level : masteries, score : scores]

AnswerValues == {Some("a"), Some("b"), None}   \* None: a JSON null

\* The assessments of the catalogue: a two-question quiz on content 1, the
\* same quiz tied to no content, and an empty quiz on content 2.
Quiz == <<[id |-> Some(1), correct_answer |-> Some("a"), question |-> "q1"],
          [id |-> Some(2), correct_answer |-> Some("b"), question |-> "q2"]>>

Catalogue ==
    <<[content |-> Some(1), questions |-> Quiz, passing_score |-> 70],
      [content |-> None, questions |-> Quiz, passing_score |-> 70],
      [content |-> Some(2), questions |-> <<>>, passing_score |-> 0]>>

\* Lines of a reply to the request for goals.
AddNumbers ==
    <<"-", " ", "A", "d", "d", " ", "n", "u", "m", "b", "e", "r", "s">>
NameShapes ==
    <<" ", "*", " ", "N", "a", "m", "e", " ", "s", "h", "a", "p", "e", "s",
      " ">>
TellTheTime ==
    <<"2", ".", " ", "T", "e", "l", "l", " ", "t", "h", "e", " ", "t", "i",
      "m", "e">>
CountInTens ==
    <<"1", "0", ".", " ", "C", "o", "u", "n", "t", " ", "i", "n", " ", "t",
      "e", "n", "s">>
ReadAMap ==
    <<"u2022", " ", "R", "e", "a", "d", " ", "a", " ", "m", "a", "p">>
SpellCat ==
    <<"-", " ", "S", "p", "e", "l", "l", " ", "c", "a", "t">>
Heading ==
    <<"G", "o", "a", "l", "s", ":">>
UseARuler ==
    <<"3", ")", " ", "U", "s", "e", " ", "a", " ", "r", "u", "l", "e", "r">>

\* '\n'.join(lines)
RECURSIVE join_lines(_)
join_lines(lines) ==
    IF lines = <<>> THEN <<>>
    ELSE IF Len(lines) = 1 THEN lines[1]
    ELSE lines[1] \o <<"\n">> \o join_lines(Tail(lines))

\* The outcome of the LLM call in the requests of the other specifications:
\* a completion without choices, so that the path gets the fallback goals.
GoalsUnanswered == [kind |-> "no_choices"]

----------------------------------------------------------------------------
(* The platform: any request, in any order *)

InitStore ==
    /\ paths = <<>>
    /\ assignments = <<>>
    /\ progress = <<>>
    /\ results = <<>>
    /\ sessions = <<>>
    /\ inflight = [w \in Workers |-> [pc |-> "idle"]]
    /\ now = 1
    /\ last = [op |-> "none"]

Init == assessments = Catalogue /\ InitStore

BothRight == [k \in {"1", "2"} |-> IF k = "1" THEN Some("a") ELSE Some("b")]
OneRight == [k \in {"1", "2"} |-> Some("a")]

\* The requests of a behaviour: a request is the tuple of its handler's
\* arguments.  Each handler is called with inputs that reach each of its
\* branches: unknown ids, a repeated content id, a path of another student or
\* an unknown path, an assessment tied to no content, an LLM reply without text.
CreateRequests ==
    ({1} \X Subjects \X SeqUpTo(ContentIds, MaxContentIds))
        \cup {<<9, 1, <<1>>>>, <<1, 9, <<1>>>>}

UpdateRequests ==
    ({1, 2} \X Payloads(Optional(STATUS_CHOICES), Optional({Whole(100)}),
                        {None}, {None}, {None}))
        \cup {<<3, [status |-> Some("completed"), completion_percentage |-> None,
                    time_spent_minutes |-> None, mastery_level |-> None,
                    score |-> None]>>}

SubmitRequests ==
    ((DOMAIN Catalogue) \X Students \X PathIds \X {<<>>, BothRight} \X {"text"})
        \cup ({1} \X {1} \X {Some(1)} \X {OneRight} \X {"text", "no_text", "error"})
        \cup {<<9, 1, None, <<>>, "text">>, <<1, 9, None, <<>>, "text">>}

Next ==
    \/ /\ now < MaxOps /\ Len(paths) < MaxPaths
       /\ \E r \in CreateRequests :
             create_learning_path(r[1], r[2], <<"beginner">>, r[3],
                                  GoalsUnanswered)
    \/ /\ now < MaxOps
       /\ \E r \in UpdateRequests : update_progress(r[1], r[2])
    \/ /\ now < MaxOps /\ Len(results) < MaxResults
       /\ \E r \in SubmitRequests :
             submit_assessment(r[1], r[2], r[3], r[4], 0, 90, r[5])

Spec == Init /\ [][Next]_vars

----------------------------------------------------------------------------
(* Manual updates: one learning path, and PUT /progress with every shape   *)
(* of payload                                                              *)

\* The number of fields a payload supplies.
Supplied(payload) ==
    Cardinality({f \in DOMAIN payload : payload[f] # None})

\* Payloads that supply at most two fields (every value of them, 0 and the
\* empty string included), or all five.
ManualPayloads ==
    {p \in Payloads(StatusInputs, FloatInputs \cup {Some(Whole(100))},
                    MinuteInputs, FloatInputs, FloatInputs) :
        \/ Supplied(p) <= 2
        \/ /\ Supplied(p) = 5
           /\ p.status \in {Some("in_progress"), Some("completed")}
           /\ p.completion_percentage # Some(Whole(100))
           /\ p.time_spent_minutes = Some(30)
           /\ p.mastery_level = p.score}

NextManual ==
    \/ /\ now < MaxOps /\ Len(paths) < MaxPaths
       /\ create_learning_path(1, 1, <<"beginner">>, <<1>>,
                               GoalsUnanswered)
    \/ /\ now < MaxOps
       /\ \E progress_id \in {1, 2}, payload \in ManualPayloads :
             update_progress(progress_id, payload)

SpecManual == Init /\ [][NextManual]_vars

----------------------------------------------------------------------------
(* Grading: one assessment drawn from the bounded set, graded once         *)

Questions ==
    [id : Optional({1, 2}), correct_answer : Optional({"a", "b"}),
     question : {"q"}]

PassingScores == {0, 50, 100}

Answers == Dicts({"1", "2", "None"}, AnswerValues)

InitGrade ==
    /\ \E questions \in SeqUpTo(Questions, MaxQuestions),
          passing_score \in PassingScores :
          assessments = <<[content |-> None, questions |-> questions,
                           passing_score |-> passing_score]>>
    /\ InitStore

NextGrade ==
    /\ results = <<>>
    /\ \E answers \in Answers :
          submit_assessment(1, 1, None, answers, 0, 90, "text")

SpecGrade == InitGrade /\ [][NextGrade]_vars

----------------------------------------------------------------------------
(* One learning path of up to MaxAssigned content items, worked through by *)
(* manual updates and by submissions of the quiz on content 1              *)

PathContentIds == SeqUpTo(Contents \cup {9}, MaxAssigned)

StatusPayloads ==
    Payloads({Some("in_progress"), Some("completed")},
             {None}, {None}, {None}, {None})

NextPath ==
    \/ /\ now < MaxOps /\ paths = <<>>
       /\ \E content_ids \in PathContentIds :
             create_learning_path(1, 1, <<"beginner">>, content_ids,
                                  GoalsUnanswered)
    \/ /\ now < MaxOps
       /\ \E progress_id \in 1..MaxAssigned, payload \in StatusPayloads :
             update_progress(progress_id, payload)
    \/ /\ now < MaxOps
       /\ \E answers \in {BothRight, OneRight} :
             submit_assessment(1, 1, Some(1), answers, 0, 90, "text")

SpecPath == Init /\ [][NextPath]_vars

----------------------------------------------------------------------------
(* The mentor: one learning path, and chats of every kind of query with    *)
(* every kind of outcome of the LLM call                                   *)

Queries ==
    {<<>>,
     <<" ">>,
     <<" ", "\n", "\t">>,
     <<" ", "H", "i", "?", " ">>}

ReplyContents ==
    {<<>>,
     <<" ", "\n">>,
     <<" ", "Y", "e", "s", ".", " ", "\n">>,
     <<"I", " ", "C", "A", "N", "N", "O", "T", " ", "h", "e", "l", "p">>,
     <<"S", "o", "r", "r", "y", ",", " ", "I", "'", "m", " ", "U", "n",
       "a", "b", "l", "e", " ", "T", "o", ".">>,
     <<"I", "t", " ", "i", "s", " ", "a", "g", "a", "i", "n", "s", "t",
       " ", "m", "y", " ", "p", "r", "o", "g", "r", "a", "m", "m", "i",
       "n", "g">>}

\* The exceptions of the client, by category: for each category one whose
\* message spells the keyword the service looks for and one whose message
\* does not.
ClientErrors ==
    {[category |-> "timeout", message |->
        <<"R", "e", "q", "u", "e", "s", "t", " ", "t", "i", "m", "e", "d",
          " ", "o", "u", "t", ".">>],
     [category |-> "timeout", message |->
        <<"u", "p", "s", "t", "r", "e", "a", "m", " ", "r", "e", "q", "u",
          "e", "s", "t", " ", "t", "i", "m", "e", "o", "u", "t">>],
     [category |-> "authentication", message |->
        <<"4", "0", "1", " ", "i", "n", "v", "a", "l", "i", "d", "_", "a",
          "p", "i", "_", "k", "e", "y">>],
     [category |-> "authentication", message |->
        <<"4", "0", "1", " ", "I", "n", "c", "o", "r", "r", "e", "c", "t",
          " ", "A", "P", "I", " ", "k", "e", "y">>],
     [category |-> "rate_limit", message |->
        <<"4", "2", "9", " ", "r", "a", "t", "e", "_", "l", "i", "m", "i",
          "t", "_", "e", "x", "c", "e", "e", "d", "e", "d">>],
     [category |-> "rate_limit", message |->
        <<"4", "2", "9", " ", "T", "o", "o", " ", "M", "a", "n", "y", " ",
          "R", "e", "q", "u", "e", "s", "t", "s">>],
     [category |-> "other", message |->
        <<"C", "o", "n", "n", "e", "c", "t", "i", "o", "n", " ", "e", "r",
          "r", "o", "r", ".">>]}

ChatOutcomes ==
    {[kind |-> "reply", content |-> c] : c \in Optional(ReplyContents)}
        \cup {[kind |-> "no_choices"]}
        \cup {[kind |-> "error", category |-> e.category, message |-> e.message] :
                e \in ClientErrors}

Asked == CHOOSE q \in Queries : strip(q) # <<>>
Answered == CHOOSE o \in ChatOutcomes : o.kind = "reply" /\ o.content # None
                                          /\ validated(o).text = strip(o.content[1])
                                          /\ ~validated(o).raised

\* A chat request is the tuple of the handler's arguments: every query on
\* its own, the query with text under every outcome of the LLM call, and
\* the lookups with ids of no row, with 0 and with the rows there are.
ChatRequests ==
    ({1} \X {None} \X {None} \X {"help"} \X Queries \X {Answered})
        \cup ({1} \X {None} \X {None} \X {"help"} \X {Asked} \X ChatOutcomes)
        \cup ({1, 9} \X {Some(1)} \X {Some(1)} \X {"guidance"} \X {Asked}
                 \X {Answered})
        \cup ({2} \X {Some(0), Some(9)} \X {None} \X {"help"} \X {<<>>, Asked}
                 \X {Answered})
        \cup ({2} \X {None} \X {Some(0), Some(9)} \X {"quiz"} \X {Asked}
                 \X {Answered})

NextMentor ==
    \/ /\ now < MaxOps /\ paths = <<>>
       /\ create_learning_path(1, 1, <<"beginner">>, <<1>>,
                               GoalsUnanswered)
    \/ /\ now < MaxOps /\ Len(sessions) < MaxSessions
       /\ \E r \in ChatRequests :
             chat_with_ai_mentor(r[1], r[2], r[3], r[4], r[5], r[6])

SpecMentor == Init /\ [][NextMentor]_vars

----------------------------------------------------------------------------
(* The mentor's view of a path: a path of up to four items, mastery set by *)
(* hand, and chats about the path                                          *)

MasteryPayloads ==
    Payloads({None}, {None}, {None},
             {Some(Whole(50)), Some(Whole(60)), Some(Whole(80))}, {None})

NextContext ==
    \/ /\ now <= MaxOps /\ paths = <<>>
       /\ \E content_ids \in {<<1, 2>>, <<1, 2, 3, 4>>} :
             create_learning_path(1, 1, <<"beginner">>, content_ids,
                                  GoalsUnanswered)
    \/ /\ now <= MaxOps
       /\ \E progress_id \in DOMAIN progress \cup {9},
             payload \in MasteryPayloads :
             update_progress(progress_id, payload)
    \/ /\ now <= MaxOps /\ Len(sessions) < MaxSessions
       /\ chat_with_ai_mentor(1, Some(1), None, "help", Asked, Answered)

SpecContext == Init /\ [][NextContext]_vars

----------------------------------------------------------------------------
(* Goal generation: one call of generate_personalized_goals, for every     *)
(* input and every reply of up to MaxLines lines                           *)

\* The lines a reply is drawn from: items whose cleaned text has 11, 13,
\* 10 and 9 characters, and a line that is no item.
GoalLines == {AddNumbers, TellTheTime, ReadAMap, SpellCat, Heading}

GoalReplies ==
    {join_lines(lines) : lines \in SeqUpTo(GoalLines, MaxLines)}
        \cup {join_lines(<<AddNumbers, NameShapes, TellTheTime, CountInTens,
                           AddNumbers, TellTheTime>>),
              join_lines(<<Heading, <<>>, NameShapes, UseARuler, CountInTens,
                           SpellCat, AddNumbers>>),
              <<" ", "\n", " ">>}

GoalOutcomes ==
    {[kind |-> "reply", content |-> c] : c \in Optional(GoalReplies)}
        \cup {[kind |-> "no_choices"]}
        \cup {[kind |-> "error", category |-> e.category, message |-> e.message] :
                e \in ClientErrors}

GradeLevels == {0, 5}
SubjectNames == {<<>>, <<"Mathematics">>}
DIFFICULTY_CHOICES == {<<"beginner">>, <<"advanced">>}

\* One call of the service, its arguments and the goals it returned kept.
goals_requested(student_grade, subject, difficulty, llm) ==
    /\ last' = [op |-> "generate_personalized_goals",
                student_grade |-> student_grade, subject |-> subject,
                difficulty |-> difficulty, llm |-> llm,
                goals |-> generate_personalized_goals(student_grade, subject,
                                                      difficulty, llm)]
    /\ UNCHANGED <<assessments, paths, assignments, progress, results,
                   sessions, inflight, now>>

NextGoals ==
    \/ /\ last.op = "none"
       /\ \E student_grade \in GradeLevels, subject \in SubjectNames,
             difficulty \in DIFFICULTY_CHOICES, llm \in GoalOutcomes :
             goals_requested(student_grade, subject, difficulty, llm)
    \/ /\ last.op = "none"
       /\ \E difficulty \in DIFFICULTY_CHOICES, llm \in GoalOutcomes :
             create_learning_path(1, 1, difficulty, <<1>>, llm)

SpecGoals == Init /\ [][NextGoals]_vars

----------------------------------------------------------------------------
(* Timed submissions: the two timestamps of a submission vary              *)

\* Clock readings of the client, in seconds.
Instants == {0, 59, 150}

NextTime ==
    /\ Len(results) < MaxTimed
    /\ \E started_at \in Instants, submitted_at \in Instants,
          answers \in {BothRight, OneRight} :
          submit_assessment(1, 1, None, answers, started_at, submitted_at,
                            "text")

SpecTime == Init /\ [][NextTime]_vars

----------------------------------------------------------------------------
(* Two workers, one request each: a handler reads the Progress row, changes *)
(* its copy and writes the copy back with save(); no lock, transaction or   *)
(* select_for_update spans the two, so the workers' steps interleave        *)

EmptyPayload ==
    [status |-> None, completion_percentage |-> None,
     time_spent_minutes |-> None, mastery_level |-> None, score |-> None]

\* A worker with nothing left to write: its request has been answered.
Done(request) == [pc |-> "done", progress_id |-> 0, request |-> request]

\* update_progress up to its save(): the row is read and changed in memory.
begin_update(w, progress_id, payload) ==
    /\ inflight[w].pc = "idle"
    /\ tick
    /\ LET request == [op |-> "update_progress", payload |-> payload,
                       score |-> Whole(0), passed |-> FALSE, time |-> now]
       IN  inflight' = [inflight EXCEPT ![w] =
               IF progress_id \in DOMAIN progress
               THEN [pc |-> "loaded", progress_id |-> progress_id,
                     request |-> request, read |-> progress[progress_id],
                     row |-> updated(progress[progress_id], payload, now)]
               ELSE Done(request)]
    /\ UNCHANGED <<assessments, paths, assignments, progress, results,
                   sessions, last>>

\* submit_assessment up to its save(): the submission is graded, its result
\* row inserted, the Progress row read and changed in memory.
begin_submit(w, assessment_id, student_id, learning_path_id, answers, started_at, submitted_at, llm) ==
    /\ inflight[w].pc = "idle"
    /\ tick
    /\ IF assessment_id \notin DOMAIN assessments \/ student_id \notin Students
       THEN /\ inflight' = [inflight EXCEPT ![w] =
                   Done([op |-> "submit_assessment", payload |-> EmptyPayload,
                         score |-> Whole(0), passed |-> FALSE, time |-> now])]
            /\ UNCHANGED results
       ELSE LET assessment == assessments[assessment_id]
                score == score_of(assessment.questions, answers)
                passed == passed_of(score, assessment.passing_score)
                ai_feedback == generate_assessment_feedback(score, llm)
                request == [op |-> "submit_assessment", payload |-> EmptyPayload,
                            score |-> score, passed |-> passed, time |-> now]
                upd == progress_after(progress, student_id, learning_path_id,
                                      assessment.content, score, passed, now)
            IN  IF \/ ai_feedback = None
                   \/ /\ learning_path_id # None
                      /\ learning_path_id[1] \notin DOMAIN paths
                THEN /\ inflight' = [inflight EXCEPT ![w] = Done(request)]
                     /\ UNCHANGED results
                ELSE /\ results' = Append(results,
                            [student |-> student_id,
                             assessment |-> assessment_id,
                             learning_path |-> learning_path_id,
                             answers |-> answers, score |-> score,
                             passed |-> passed,
                             started_at |-> started_at,
                             submitted_at |-> submitted_at,
                             time_taken_minutes |->
                                 time_taken(started_at, submitted_at),
                             ai_feedback |-> ai_feedback[1],
                             graded |-> TRUE])
                     /\ inflight' = [inflight EXCEPT ![w] =
                            IF upd.matched = 0 THEN Done(request)
                            ELSE [pc |-> "loaded", progress_id |-> upd.matched,
                                  request |-> request,
                                  read |-> progress[upd.matched],
                                  row |-> upd.rows[upd.matched]]]
    /\ UNCHANGED <<assessments, paths, assignments, progress, sessions, last>>

\* progress.save(): every column of the row is written from the copy.
save(w) ==
    /\ inflight[w].pc = "loaded"
    /\ progress' = [progress EXCEPT ![inflight[w].progress_id] = inflight[w].row]
    /\ inflight' = [inflight EXCEPT ![w] = [@ EXCEPT !.pc = "done"]]
    /\ UNCHANGED <<assessments, paths, assignments, results, sessions, now, last>>

RacePayloads ==
    {[EmptyPayload EXCEPT !.time_spent_minutes = Some(30)],
     [EmptyPayload EXCEPT !.score = Some(Whole(50))],
     [EmptyPayload EXCEPT !.status = Some("completed")],
     [EmptyPayload EXCEPT !.status = Some("in_progress")]}

NextRace ==
    \/ /\ paths = <<>>
       /\ create_learning_path(1, 1, <<"beginner">>, <<1, 2>>,
                               GoalsUnanswered)
    \/ /\ paths # <<>>
       /\ \E w \in Workers, progress_id \in {1, 2, 9}, payload \in RacePayloads :
             begin_update(w, progress_id, payload)
    \/ /\ paths # <<>>
       /\ \E w \in Workers, answers \in {BothRight, OneRight} :
             begin_submit(w, 1, 1, Some(1), answers, 0, 90, "text")
    \/ \E w \in Workers : save(w)

SpecRace == Init /\ [][NextRace]_vars

----------------------------------------------------------------------------
(* Vocabulary of the properties *)

\* The request handled last was this handler's, and it returned a response.
Returned(op) == last.op = op /\ last.outcome = "ok"

\* The Progress rows that existed before the last request.
Before == last.before

\* The request handled last changed nothing in rows that existed before it.
ProgressUntouched == progress = Before

\* The last request was a submission whose AssessmentResult row was stored.
Recorded ==
    /\ last.op = "submit_assessment"
    /\ last.outcome \notin {"not_found", "integrity_error"}

\* The rows (before the last submission) that the submission's lookup matches.
Matched ==
    LET content == assessments[last.assessment_id].content
    IN  IF last.learning_path_id = None \/ content = None THEN {}
        ELSE matching(Before, last.student_id, last.learning_path_id[1],
                      content[1])

\* The ContentAssignment rows of a path, and its Progress rows (among the
\* given ones) that carry a completion timestamp.
AssignedTo(p) == {i \in DOMAIN assignments : assignments[i].learning_path = p}
CompletedIn(p, rows) ==
    {i \in DOMAIN rows : rows[i].learning_path = p /\ rows[i].completed_at # 0}

ProgressOf(p) == {i \in DOMAIN progress : progress[i].learning_path = p}

\* What a request does to the row it reads, at the given clock reading.
Apply(request, row, time) ==
    IF request.op = "update_progress"
    THEN updated(row, request.payload, time)
    ELSE graded(row, request.score, request.passed, time)

\* The rows that running the two requests one after the other can leave.
InSeries(row, first, second) ==
    {Apply(second, Apply(first, row, t1), t2) :
        <<t1, t2>> \in {tt \in (1..now) \X (1..now) : tt[1] < tt[2]}}

\* Both workers have written the same Progress row and are done.
BothSaved ==
    /\ \A w \in Workers : inflight[w].pc = "done"
    /\ inflight[1].progress_id # 0
    /\ inflight[1].progress_id = inflight[2].progress_id

\* The row as it was before either request read it.
RowAtStart ==
    IF inflight[1].request.time < inflight[2].request.time
    THEN inflight[1].read ELSE inflight[2].read

\* The last request was a chat that got past the lookups, so that
\* GrokService.chat was called for it.
Chatted == last.op = "chat_with_ai_mentor" /\ last.outcome # "not_found"

\* The session row a chat that returned has stored.
Session == sessions[Len(sessions)]

\* A text of whitespace only (the empty text included).
Blank(s) == \A i \in DOMAIN s : s[i] \in Whitespace

\* The LLM client replied to the last chat with a text that is not blank.
Replied ==
    /\ Chatted /\ last.called
    /\ last.llm.kind = "reply"
    /\ last.llm.content # None
    /\ ~Blank(last.llm.content[1])

\* The text holds one of the refusal phrases, in whatever case.
Refusing(s) ==
    \E phrase \in {I_CANNOT, IM_UNABLE_TO, AGAINST_MY_PROGRAMMING} :
        \E i \in DOMAIN s :
            /\ i + Len(phrase) - 1 <= Len(s)
            /\ \A k \in DOMAIN phrase :
                  \/ s[i + k - 1] = phrase[k]
                  \/ \E u \in DOMAIN UpperCase :
                        UpperCase[u] = s[i + k - 1] /\ LowerCase[u] = phrase[k]

\* t is s without the whitespace at its two ends.
Stripped(s, t) ==
    \E i \in DOMAIN s, j \in DOMAIN s :
        /\ t = SubSeq(s, i, j)
        /\ Blank(SubSeq(s, 1, i - 1)) /\ Blank(SubSeq(s, j + 1, Len(s)))
        /\ s[i] \notin Whitespace /\ s[j] \notin Whitespace

\* The fallback message of each category of client error.
FallbackOf(category) ==
    CASE category = "timeout"        -> TimeoutMessage
      [] category = "authentication" -> AuthMessage
      [] category = "rate_limit"     -> RateLimitMessage
      [] OTHER                       -> GenericMessage

\* The last call of goal generation had valid inputs and a reply with text.
GoalsReplied ==
    /\ last.op = "generate_personalized_goals"
    /\ last.subject # <<>> /\ last.student_grade >= 1
    /\ last.llm.kind = "reply"
    /\ last.llm.content # None
    /\ ~Blank(last.llm.content[1])

\* The goals that pass the cleaning of the reply to the last call.
ValidGoals == cleaned_goals(split_lines(last.llm.content[1]))

\* The edges of the state machine over Progress.status.
AllowedEdges ==
    {<<"not_started", "in_progress">>, <<"in_progress", "completed">>,
     <<"in_progress", "needs_review">>, <<"needs_review", "in_progress">>}

\* The row a manual update addressed, before and after it.
OldRow == Before[last.progress_id]
NewRow == progress[last.progress_id]

\* The clock reading the last request was handled at.
HandledAt == now - 1

\* The fields of a payload that are stored as numbers.
NumericFields ==
    {"completion_percentage", "time_spent_minutes", "mastery_level"}

\* What update_progress may change besides the five fields of the payload.
SameElsewhere(old, new) ==
    /\ new.student = old.student
    /\ new.learning_path = old.learning_path
    /\ new.content = old.content

\* The assessment and the result row of the last submission.
Graded == assessments[last.assessment_id]
Result == results[Len(results)]

\* The positions of the questions answered correctly.
RightlyAnswered(questions, answers) ==
    {i \in DOMAIN questions :
        /\ str(questions[i].id) \in DOMAIN answers
        /\ answers[str(questions[i].id)] = questions[i].correct_answer}

\* The questions not answered correctly, in question order.
NotRight(questions, answers) ==
    SelectSeq(questions,
              LAMBDA q : ~(/\ str(q.id) \in DOMAIN answers
                           /\ answers[str(q.id)] = q.correct_answer))

\* The answer map without the keys that are no question's id.
OnQuestions(questions, answers) ==
    [k \in {k \in DOMAIN answers :
                \E i \in DOMAIN questions : str(questions[i].id) = k}
        |-> answers[k]]

----------------------------------------------------------------------------
(* C1: in every reachable state every Progress row has status 'completed'  *)
(* exactly when completed_at is set, and exactly when its                  *)
(* completion_percentage is 100.                                           *)

C1_ProgressInvariant ==
    \A i \in DOMAIN progress :
        /\ (progress[i].status = "completed") <=> (progress[i].completed_at # 0)
        /\ (progress[i].completed_at # 0)
              <=> (progress[i].completion_percentage = Whole(100))

(* C2: every change of a row's status, by a manual or an assessment-driven *)
(* update, goes along one of the four edges of the state machine.          *)

C2_OnlyAllowedEdges ==
    last.op # "none" =>
        \A i \in DOMAIN Before :
            Before[i].status # progress[i].status =>
                <<Before[i].status, progress[i].status>> \in AllowedEdges

(* C3: a row whose status is 'completed' keeps that status through every   *)
(* later manual update and assessment submission.                          *)

C3_CompletedIsTerminal ==
    last.op # "none" =>
        \A i \in DOMAIN Before :
            Before[i].status = "completed" => progress[i].status = "completed"

(* C4: after a submission that returns, made with a learning_path_id for   *)
(* an assessment tied to a content item, the Progress row of that          *)
(* (student, path, content) has score and mastery_level equal to the       *)
(* graded score; it is completed, stamped and at 100 percent when the      *)
(* submission passed, and in needs_review when it did not.                 *)

C6_OneRowPerTriple ==
    /\ \A i, j \in DOMAIN progress :
          (/\ progress[i].student = progress[j].student
           /\ progress[i].learning_path = progress[j].learning_path
           /\ progress[i].content = progress[j].content) => i = j
    /\ last.op = "submit_assessment" => Len(progress) = Len(Before)

C6_Witness ==
    /\ Returned("submit_assessment")
    /\ Len(progress) = 2
    /\ Matched # {}

----------------------------------------------------------------------------
(* C7: a manual update with status 'in_progress' stamps started_at when it *)
(* is unset and keeps it when it is set; one with status 'completed' does  *)
(* the same for completed_at; no manual update changes a timestamp that is *)
(* set.                                                                    *)

C7_StampedOnce ==
    Returned("update_progress") =>
        /\ last.payload.status = Some("in_progress") =>
              NewRow.started_at =
                  IF OldRow.started_at = 0 THEN HandledAt ELSE OldRow.started_at
        /\ last.payload.status = Some("completed") =>
              NewRow.completed_at =
                  IF OldRow.completed_at = 0 THEN HandledAt
                  ELSE OldRow.completed_at
        /\ OldRow.started_at # 0 => NewRow.started_at = OldRow.started_at
        /\ OldRow.completed_at # 0 => NewRow.completed_at = OldRow.completed_at

C7_Witness ==
    /\ Returned("update_progress")
    /\ last.payload.status = Some("in_progress")
    /\ OldRow.started_at # 0
    /\ OldRow.started_at < HandledAt
    /\ NewRow.started_at = OldRow.started_at

(* C8, as stated: a field absent from the payload keeps its value, and     *)
(* every field present in it, status included, is stored as given.         *)

C8_PresentStoredVerbatim ==
    Returned("update_progress") =>
        /\ \A f \in NumericFields :
              NewRow[f] = IF last.payload[f] = None THEN OldRow[f]
                          ELSE last.payload[f][1]
        /\ NewRow.score = IF last.payload.score = None THEN OldRow.score
                          ELSE last.payload.score
        /\ NewRow.status = IF last.payload.status = None THEN OldRow.status
                           ELSE last.payload.status[1]

(* C8, amended: a field absent from the payload keeps its value; each of   *)
(* completion_percentage, time_spent_minutes, mastery_level and score that *)
(* is present (0 included) is stored as given; status is stored as given   *)
(* when it is present and not the empty string, and keeps its value when   *)
(* it is the empty string; no other row changes.                           *)

C8_PartialUpdate ==
    Returned("update_progress") =>
        /\ \A f \in NumericFields :
              NewRow[f] = IF last.payload[f] = None THEN OldRow[f]
                          ELSE last.payload[f][1]
        /\ NewRow.score = IF last.payload.score = None THEN OldRow.score
                          ELSE last.payload.score
        /\ NewRow.status = IF last.payload.status \in {None, Some("")}
                           THEN OldRow.status
                           ELSE last.payload.status[1]
        /\ SameElsewhere(OldRow, NewRow)
        /\ \A i \in DOMAIN progress : i # last.progress_id => progress[i] = Before[i]

C8_Witness ==
    /\ Returned("update_progress")
    /\ last.payload.score = Some(Whole(0))
    /\ last.payload.mastery_level = None
    /\ OldRow.score = Some(Whole(50))
    /\ OldRow.mastery_level = Whole(50)
    /\ NewRow.score = Some(Whole(0))
    /\ NewRow.mastery_level = Whole(50)

----------------------------------------------------------------------------
(* C9: the graded score is 100 * (questions whose id is a key of the       *)
(* answer map with the question's correct answer as value) / (questions),  *)
(* and 0 for no questions; it lies in [0, 100]; answers under keys that    *)
(* are no question's id do not change it; passed is score >= passing_score.*)

C9_Score ==
    Returned("submit_assessment") =>
        LET n == Len(Graded.questions)
            right == Cardinality(RightlyAnswered(Graded.questions, last.answers))
            score == Result.score
        IN  /\ score[2] > 0
            /\ n > 0 => score[1] * n = 100 * right * score[2]
            /\ n = 0 => score = Whole(0)
            /\ 0 <= score[1] /\ score[1] <= 100 * score[2]
            /\ score_of(Graded.questions,
                        OnQuestions(Graded.questions, last.answers)) = score
            /\ Result.passed <=> (score[1] >= Graded.passing_score * score[2])

C9_Witness ==
    /\ Returned("submit_assessment")
    /\ Len(Graded.questions) = 2
    /\ Result.score = Whole(50)
    /\ \E k \in DOMAIN last.answers :
          \A i \in DOMAIN Graded.questions : str(Graded.questions[i].id) # k
    /\ Graded.passing_score = 50
    /\ Result.passed

(* C10: an assessment with no questions is graded with score 0 and         *)
(* passed = false, whatever its passing_score.                             *)

C10_EmptyNeverPasses ==
    (Returned("submit_assessment") /\ Graded.questions = <<>>) =>
        /\ Result.score = Whole(0)
        /\ ~Result.passed

----------------------------------------------------------------------------
(* C11: the list of missed questions handed to the feedback generator      *)
(* holds, in question order and once each, the text of every question      *)
(* that was answered incorrectly and of every question that was not        *)
(* answered.                                                               *)

C11_MissedOrUnanswered ==
    (last.op = "submit_assessment" /\ last.outcome # "not_found") =>
        last.questions_missed =
            [i \in DOMAIN NotRight(Graded.questions, last.answers) |->
                NotRight(Graded.questions, last.answers)[i].question]

----------------------------------------------------------------------------
(* C12: in every reachable state the completion percentage of a learning   *)
(* path is 100 * (its Progress rows with completed_at set) / (its          *)
(* ContentAssignment rows) rounded to two decimals, 0.0 for a path without *)
(* assignments, and a value in [0, 100].                                   *)

C12_PathCompletion ==
    \A p \in DOMAIN paths :
        LET t == Cardinality(AssignedTo(p))
            c == Cardinality(CompletedIn(p, progress))
            v == completion_percentage(p, assignments, progress)
            dist == v[1] * t - 100 * c * v[2]
        IN  /\ v[2] > 0 /\ 100 % v[2] = 0
            /\ t = 0 => v = Whole(0)
            /\ t > 0 => /\ 200 * dist <= v[2] * t
                        /\ -200 * dist <= v[2] * t
            /\ 0 <= v[1] /\ v[1] <= 100 * v[2]

C12_Witness ==
    /\ Cardinality(AssignedTo(1)) = 3
    /\ Cardinality(CompletedIn(1, progress)) = 2
    /\ completion_percentage(1, assignments, progress) = Float(6667, 100)

(* C13: a manual update or a submission leaves the assignments of every    *)
(* path as they are, clears no completed_at that is set and so never       *)
(* lowers the completion percentage of a path.                             *)

C13_NeverDecreases ==
    last.op \in {"update_progress", "submit_assessment"} =>
        /\ \A i \in DOMAIN Before :
              Before[i].completed_at # 0 => progress[i].completed_at # 0
        /\ \A p \in DOMAIN paths :
              Ge(completion_percentage(p, assignments, progress),
                 completion_percentage(p, assignments, Before))

C13_Witness ==
    /\ Returned("submit_assessment")
    /\ ~Result.passed
    /\ last.matched # 0
    /\ Before[last.matched].status = "completed"
    /\ progress[last.matched].status = "needs_review"
    /\ completion_percentage(1, assignments, Before) = Whole(50)
    /\ completion_percentage(1, assignments, progress) = Whole(50)

----------------------------------------------------------------------------
(* C14: a create_learning_path that succeeds with content ids c1..cn       *)
(* leaves, for the new path, one ContentAssignment per ci with order i (so *)
(* 1..n, increasing in the order given) and exactly one Progress row per   *)
(* ci, in status not_started; in every state each path has as many         *)
(* Progress rows as ContentAssignment rows.                                *)

C14_CreatedInStep ==
    /\ Returned("create_learning_path") =>
          LET p == Len(paths)
              n == Len(last.content_ids)
              made == SelectSeq(assignments, LAMBDA a : a.learning_path = p)
          IN  /\ Len(made) = n
              /\ \A k \in 1..n :
                    /\ made[k].content = last.content_ids[k]
                    /\ made[k].order = k
                    /\ \E i \in DOMAIN progress :
                          /\ matching(progress, last.student_id, p,
                                      last.content_ids[k]) = {i}
                          /\ progress[i].status = "not_started"
                          /\ i \notin DOMAIN Before
              /\ Cardinality(ProgressOf(p)) = n
    /\ \A p \in DOMAIN paths :
          Cardinality(ProgressOf(p)) = Cardinality(AssignedTo(p))

C14_Witness ==
    /\ Returned("create_learning_path")
    /\ Len(last.content_ids) = 3
    /\ Cardinality(AssignedTo(1)) = 3

----------------------------------------------------------------------------
(* C15: when two requests have read, changed and written the same Progress *)
(* row, the row is as one of the two serial orders leaves it: no write of  *)
(* either request is lost.                                                 *)

C15_SerialOutcome ==
    BothSaved =>
        progress[inflight[1].progress_id] \in
            InSeries(RowAtStart, inflight[1].request, inflight[2].request)
                \cup InSeries(RowAtStart, inflight[2].request, inflight[1].request)

----------------------------------------------------------------------------
(* C16: a chat whose query is empty or whitespace only is answered with    *)
(* the fixed clarifying prompt, and the LLM client is not called for it.   *)

C16_BlankQuery ==
    (Chatted /\ Blank(last.query)) =>
        /\ last.response_text = ClarifyingPrompt
        /\ ~last.called
        /\ last.outcome = "ok" => Session.response = ClarifyingPrompt

C16_Witness ==
    /\ Returned("chat_with_ai_mentor")
    /\ Len(last.query) = 3
    /\ Blank(last.query)
    /\ Session.response = ClarifyingPrompt
    /\ ~last.called

(* C17: when the LLM client raises a timeout error during a chat, the text *)
(* returned is the fixed timeout message, and exactly one session row is   *)
(* stored, with that text as its response.                                 *)

C17_TimeoutFallback ==
    (Chatted /\ last.called /\ last.llm.kind = "error"
        /\ last.llm.category = "timeout") =>
        /\ last.response_text = TimeoutMessage
        /\ last.outcome = "ok"
        /\ Len(sessions) = Len(last.sessions_before) + 1
        /\ Session.response = TimeoutMessage

(* C18: whatever error the LLM client raises during a chat, the service    *)
(* returns (and raises nothing) the fallback message of the category of    *)
(* the error: timeout, authentication, rate limit, or generic.             *)

C18_FallbackByCategory ==
    (Chatted /\ last.called /\ last.llm.kind = "error") =>
        last.response_text = FallbackOf(last.llm.category)

(* C19: when the LLM replies with a text (not blank) that holds a refusal  *)
(* phrase, in whatever case, the text returned and stored is the fixed     *)
(* redirect message and not the reply; a reply without such a phrase is    *)
(* returned and stored as it is, less the whitespace at its ends.          *)

C19_RefusalRedirected ==
    Replied =>
        /\ Refusing(last.llm.content[1]) =>
              /\ last.response_text = RedirectMessage
              /\ last.response_text # last.llm.content[1]
        /\ ~Refusing(last.llm.content[1]) =>
              Stripped(last.llm.content[1], last.response_text)
        /\ last.outcome = "ok" => Session.response = last.response_text

C19_Witness ==
    /\ Returned("chat_with_ai_mentor")
    /\ Replied
    /\ Refusing(last.llm.content[1])
    /\ \A phrase \in {I_CANNOT, IM_UNABLE_TO, AGAINST_MY_PROGRAMMING} :
          ~contains(last.llm.content[1], phrase)
    /\ Session.response = RedirectMessage

(* C20: every chat that gets past the lookups stores exactly one new       *)
(* session row, whose response is the text returned and whose query,       *)
(* session type and context are those of the request, and leaves the rows  *)
(* stored before as they were.                                             *)

C20_OneSessionPerChat ==
    Chatted =>
        /\ last.outcome = "ok"
        /\ Len(sessions) = Len(last.sessions_before) + 1
        /\ SubSeq(sessions, 1, Len(last.sessions_before)) = last.sessions_before
        /\ Session.response = last.response_text
        /\ Session.query = last.query
        /\ Session.session_type = last.session_type
        /\ Session.context_data = last.context_data

----------------------------------------------------------------------------
(* C21: whatever the LLM client does during a submission (a usable text,   *)
(* no choices, an empty or a missing text, an error), the submission       *)
(* completes: one AssessmentResult is stored, its feedback being the LLM's *)
(* text when that is usable and the score-band fallback otherwise, and the *)
(* progress update is applied.                                             *)

C21_FeedbackAlways ==
    (/\ last.op = "submit_assessment"
     /\ last.outcome # "not_found"
     /\ last.learning_path_id # None => last.learning_path_id[1] \in DOMAIN paths) =>
        /\ last.outcome = "ok"
        /\ Len(results) > 0
        /\ Result.student = last.student_id
        /\ Result.assessment = last.assessment_id
        /\ Result.ai_feedback = IF last.llm = "text" THEN "llm_feedback"
                                ELSE fallback_feedback(last.score)
        /\ \A i \in Matched : progress[i].score = Some(last.score)

----------------------------------------------------------------------------
(* C22: goal generation returns the cleaned goals, at most the first 5 in  *)
(* the order of the reply, when 3 or more valid goals remain; for fewer,   *)
(* for an empty reply, invalid inputs or any LLM error it returns the four *)
(* fallback goals spelled with subject and difficulty alone; the list has  *)
(* between 3 and 5 goals.                                                  *)

C22_GoalsOrFallback ==
    last.op = "generate_personalized_goals" =>
        /\ (GoalsReplied /\ Len(ValidGoals) >= 3) =>
              /\ Len(last.goals) = (IF Len(ValidGoals) > 5 THEN 5
                                    ELSE Len(ValidGoals))
              /\ \A i \in DOMAIN last.goals : last.goals[i] = ValidGoals[i]
        /\ ~(GoalsReplied /\ Len(ValidGoals) >= 3) =>
              /\ last.goals = fallback_goals(last.subject, last.difficulty)
              /\ Len(last.goals) = 4
        /\ Len(last.goals) >= 3 /\ Len(last.goals) <= 5

C22_Witness ==
    /\ GoalsReplied
    /\ Len(ValidGoals) = 6
    /\ Len(last.goals) = 5

(* C27: an item of the reply is discarded exactly when its cleaned text is *)
(* shorter than 10 characters, so that a reply with three or more items of *)
(* 10 characters or more is returned as its goals.                         *)

C27_TenIsKept ==
    (GoalsReplied
        /\ Len(cleaned_goals_from_ten(split_lines(last.llm.content[1]))) >= 3) =>
        last.goals =
            first_five(cleaned_goals_from_ten(split_lines(last.llm.content[1])))

----------------------------------------------------------------------------
(* C23: every step that handles a submission (one that got past the       *)
(* lookups of assessment, student and learning path) adds exactly one      *)
(* AssessmentResult, whose score and passed are the grading result that    *)
(* went into Progress; no step changes or removes a result stored before.  *)

C23_OneResultPerSubmission ==
    [][/\ \A i \in DOMAIN results :
             i \in DOMAIN results' /\ results'[i] = results[i]
       /\ (/\ last'.op = "submit_assessment"
           /\ last'.outcome # "not_found"
           /\ last'.learning_path_id # None =>
                 last'.learning_path_id[1] \in DOMAIN paths) =>
             /\ Len(results') = Len(results) + 1
             /\ results'[Len(results')].score = last'.score
             /\ results'[Len(results')].passed = last'.passed
             /\ last'.matched # 0 =>
                   progress'[last'.matched].score = Some(last'.score)
       /\ last'.op # "submit_assessment" => results' = results]_vars

----------------------------------------------------------------------------
(* C24: in every reachable state every Progress row has                    *)
(* completion_percentage and mastery_level in [0, 100], a score that is    *)
(* unset or in [0, 100], and a status among the four of STATUS_CHOICES,    *)
(* whatever the requests supplied.                                         *)

C24_FieldsInRange ==
    \A i \in DOMAIN progress :
        LET InRange(x) == Ge(x, Whole(0)) /\ Ge(Whole(100), x)
        IN  /\ InRange(progress[i].completion_percentage)
            /\ InRange(progress[i].mastery_level)
            /\ progress[i].score # None => InRange(progress[i].score[1])
            /\ progress[i].status \in STATUS_CHOICES

----------------------------------------------------------------------------
(* C26: a question that has no correct-answer key is never counted as      *)
(* correct, whatever value (a null included) is submitted for it: the      *)
(* score of a submission counts only the questions that have a key and     *)
(* whose submitted value equals it.                                        *)

C26_NoKeyNeverCorrect ==
    (Returned("submit_assessment") /\ Graded.questions # <<>>) =>
        LET keyed == {i \in RightlyAnswered(Graded.questions, last.answers) :
                         Graded.questions[i].correct_answer # None}
        IN  last.score = Float(Cardinality(keyed) * 100,
                               Len(Graded.questions))

----------------------------------------------------------------------------
(* C29: in every reachable state, for every learning path, the number of   *)
(* its Progress rows whose status is 'completed' equals the number of its  *)
(* Progress rows whose completed_at is set.                                *)

C29_CompletedCountsAgree ==
    \A p \in DOMAIN paths :
        Cardinality({i \in ProgressOf(p) : progress[i].status = "completed"})
            = Cardinality(CompletedIn(p, progress))

----------------------------------------------------------------------------
(* C30: a create-learning-path request that is rejected, because one of    *)
(* its content ids is unknown or repeats an earlier id of the request,     *)
(* leaves no LearningPath, ContentAssignment or Progress row behind.       *)

C30_RejectedLeavesNothing ==
    [][(/\ last'.op = "create_learning_path"
        /\ last'.outcome # "ok") =>
            /\ paths' = paths
            /\ assignments' = assignments
            /\ progress' = progress]_vars

----------------------------------------------------------------------------
(* C28: a submission whose submitted_at is earlier than its started_at is  *)
(* rejected before grading, so every recorded AssessmentResult has         *)
(* submitted_at no earlier than started_at and a time_taken_minutes that   *)
(* is at least 0 and equal to floor((submitted_at - started_at) / 60),     *)
(* the timestamps taken in seconds.                                        *)

C28_TimeTakenIsFloor ==
    \A i \in DOMAIN results :
        /\ results[i].submitted_at >= results[i].started_at
        /\ results[i].time_taken_minutes >= 0
        /\ results[i].time_taken_minutes =
               (results[i].submitted_at - results[i].started_at) \div 60

----------------------------------------------------------------------------
(* C25: in the context the mentor chat builds for a learning path, the     *)
(* struggling topics are titles of Progress rows of the student on the     *)
(* path with mastery_level < 60 and the strong topics titles of rows with  *)
(* mastery_level >= 80; each list holds the first three such rows in the   *)
(* order of the records (latest update first), no row is in both lists,    *)
(* the request changes no Progress, ContentAssignment or AssessmentResult  *)
(* row, and the unchanged rows leave one order only, so that a second chat *)
(* over them builds the same lists.                                        *)

\* The Progress row of the student of the last chat, on its path, whose
\* content has the given title.
RowTitled(t) ==
    CHOOSE i \in progress_records(progress, last.student_id,
                                  last.learning_path_id[1]) :
        progress[i].content = t[2]

\* The list holds the first three of the given rows, latest update first.
FirstThreeOf(list, ids) ==
    /\ Len(list) = (IF Cardinality(ids) < 3 THEN Cardinality(ids) ELSE 3)
    /\ \A k \in DOMAIN list : list[k][1] = "title" /\ RowTitled(list[k]) \in ids
    /\ \A k, l \in DOMAIN list :
          k < l => Later(progress[RowTitled(list[k])].updated_at,
                         progress[RowTitled(list[l])].updated_at)
    /\ \A i \in ids :
          (\A k \in DOMAIN list : RowTitled(list[k]) # i) =>
              \A k \in DOMAIN list :
                  Later(progress[RowTitled(list[k])].updated_at,
                        progress[i].updated_at)

ChattedOnPath == Returned("chat_with_ai_mentor") /\ Truthy(last.learning_path_id)

TopicsAsRecorded ==
    ChattedOnPath =>
        LET records == progress_records(progress, last.student_id,
                                        last.learning_path_id[1])
            low == {i \in records : ~Ge(progress[i].mastery_level, Whole(60))}
            high == {i \in records : Ge(progress[i].mastery_level, Whole(80))}
        IN  /\ FirstThreeOf(last.struggling_topics, low)
            /\ FirstThreeOf(last.strong_topics, high)
            /\ \A k \in DOMAIN last.struggling_topics :
                  \A l \in DOMAIN last.strong_topics :
                      last.struggling_topics[k] # last.strong_topics[l]
            /\ Cardinality(in_order(progress, low)) = 1
            /\ Cardinality(in_order(progress, high)) = 1

C25_MentorTopics ==
    /\ []TopicsAsRecorded
    /\ [][last'.op = "chat_with_ai_mentor" =>
              /\ progress' = progress
              /\ assignments' = assignments
              /\ results' = results]_vars

C25_Witness ==
    /\ ChattedOnPath
    /\ Len(last.struggling_topics) = 3
    /\ last.struggling_topics[1] = <<"title", 1>>
    /\ last.strong_topics = <<<<"title", 2>>>>
    /\ Cardinality({i \in DOMAIN progress :
                       ~Ge(progress[i].mastery_level, Whole(60))}) = 3

====
